---- MODULE Spec2Model ----
(***************************************************************************)
(* Model of the algorithms library.  First BinaryTree::BinaryTree          *)
(* (include/binary_tree.h): a plain binary search tree of doubles whose    *)
(* nodes are linked by left / right / parent pointers.  Pointers are node  *)
(* ids, NIL is the null pointer.  Keys are small integers: the code only   *)
(* compares keys with <, == and !=.  Then RedBlackTree                     *)
(* (include/red_black_tree.h) and the free functions of sorting.h,         *)
(* rod_cut.h and max_subarray.h, each with a specification of its own.     *)
(***************************************************************************)
EXTENDS Integers, Sequences, FiniteSets, TLC

MaxKey == 4
MaxNodes == 5

Keys == 1..MaxKey
NIL == 0
Ids == 1..MaxNodes

\* what() of the std::out_of_range exceptions the class throws
EmptyMsg == "Binary tree is empty"
NotFoundMsg == "Value not found"
BoundaryMsg == "Value has no successor, as it is the maximum value of the tree."

\* root      BinaryTree::root
\* node      the heap: the fields of the detail::Node at every address
\* live      the addresses that hold a node
\* allocated the number of nodes created so far (addresses are not reused)
\* status    "running", or how the process ended: "segv", "abort", "hang"
\* last      the last call, its argument and what it returned or threw
\* expected  how many times each key should be in the tree: the vector the
\*           tests sort and compare with getSortedValues()
\* distinct  no key has been inserted while it was in the tree
VARIABLES root, node, live, allocated, status, last, expected, distinct

\* rbRoot    RedBlackTree::root
\* rbNode    the heap of detail::RedBlackNode: the node at address i is
\*           rbNode[i], in order of creation
\* rbStatus  "running", or how a call on the red-black tree ended the process
\* rbLast    the last call on the red-black tree and what it returned
\* rbCursor  the local variable node of insertFixup while an insert is inside
\*           its fix-up loop, NIL when no insert is under way
VARIABLES rbRoot, rbNode, rbStatus, rbLast, rbCursor

\* callInput   the vector (or, for the rod, the uncut length) a free function
\*             of sorting.h, rod_cut.h or max_subarray.h is called with
\* callPrices  the price table the functions of RodCut are called with
\* callOutput  the function called last and what it returned or threw
VARIABLES callInput, callPrices, callOutput

treeVars == <<root, node, live, allocated, status, last, expected, distinct>>

rbVars == <<rbRoot, rbNode, rbStatus, rbLast, rbCursor>>

callVars == <<callInput, callPrices, callOutput>>

vars == <<treeVars, rbVars, callVars>>

\* detail::Node
Node(k, l, p, r) == [key |-> k, left |-> l, parent |-> p, right |-> r]

FreeNode == Node(0, NIL, NIL, NIL)

\* The object a member function works on.  out is how the call ends: "ok"
\* (returns), "throw" (std::out_of_range leaves the call), "nullderef" (a null
\* shared_ptr is dereferenced) or "hang" (a loop never exits).
Tree == [root |-> root, node |-> node, live |-> live, out |-> "ok", what |-> ""]

Ends(T, how) == [T EXCEPT !.out = how]

\* Dereferencing a null shared_ptr is undefined: the read of address 0 ends the
\* process with SIGSEGV, and a library built with assertions aborts before it.
NullDerefOutcomes == {"segv", "abort"}

\* Results of the query functions.
Ok(v) == [kind |-> "value", what |-> "", val |-> v]
Throw(msg) == [kind |-> "throw", what |-> msg, val |-> 0]
Hang == [kind |-> "hang", what |-> "", val |-> 0]

\* A loop that follows one pointer per iteration and has not ended after
\* LoopFuel iterations has come back to a node it has visited and never ends.
LoopFuel == MaxNodes + 1
\* The traversal visits a node once for every path from the root to it.
TraversalFuel == 2 ^ (MaxNodes + 2)
HANG == 0 - 1

\* The loop of findValue; HANG when it never exits.
RECURSIVE findLoop(_, _, _, _)
findLoop(T, current_node, value, fuel) ==
    IF current_node = NIL \/ T.node[current_node].key = value THEN current_node
    ELSE IF fuel = 0 THEN HANG
    ELSE IF value < T.node[current_node].key
         THEN findLoop(T, T.node[current_node].left, value, fuel - 1)
         ELSE findLoop(T, T.node[current_node].right, value, fuel - 1)

findValue(T, value) == findLoop(T, T.root, value, LoopFuel)

\* transplant without its final else branch: a right child is never unlinked.
transplant_noElse(T, old_node, new_node) ==
    IF T.out # "ok" THEN T
    ELSE IF old_node # T.root /\ T.node[old_node].parent = NIL THEN Ends(T, "nullderef")
    ELSE
      LET p == T.node[old_node].parent
          T1 == IF old_node = T.root THEN [T EXCEPT !.root = new_node]
                ELSE IF old_node = T.node[p].left
                     THEN [T EXCEPT !.node[p].left = new_node]
                     ELSE T
      IN IF new_node # NIL
         THEN [T1 EXCEPT !.node[new_node].parent = T1.node[old_node].parent]
         ELSE T1

transplant(T, old_node, new_node) ==
    IF T.out # "ok" THEN T
    ELSE IF old_node # T.root /\ T.node[old_node].parent = NIL THEN Ends(T, "nullderef")
    ELSE
      LET p == T.node[old_node].parent
          T1 == IF old_node = T.root THEN [T EXCEPT !.root = new_node]
                ELSE IF old_node = T.node[p].left
                     THEN [T EXCEPT !.node[p].left = new_node]
                     ELSE [T EXCEPT !.node[p].right = new_node]
      IN IF new_node # NIL
         THEN [T1 EXCEPT !.node[new_node].parent = T1.node[old_node].parent]
         ELSE T1

\* The loop of getSortedValues with its explicit stack.
RECURSIVE sortedLoop(_, _, _, _, _)
sortedLoop(T, current_node, stack, output, fuel) ==
    IF current_node # NIL
    THEN IF fuel = 0 THEN Hang
         ELSE sortedLoop(T, T.node[current_node].left, Append(stack, current_node),
                         output, fuel - 1)
    ELSE IF stack # <<>>
    THEN IF fuel = 0 THEN Hang
         ELSE LET top == stack[Len(stack)]
              IN sortedLoop(T, T.node[top].right, SubSeq(stack, 1, Len(stack) - 1),
                            Append(output, T.node[top].key), fuel - 1)
    ELSE Ok(output)

getSortedValues(T) == sortedLoop(T, T.root, <<>>, <<>>, TraversalFuel)

\* The loop of insert: the parent_node it ends with, HANG when it never exits.
RECURSIVE insertLoop(_, _, _, _, _)
insertLoop(T, parent_node, target_node, value, fuel) ==
    IF target_node = NIL THEN parent_node
    ELSE IF fuel = 0 THEN HANG
    ELSE IF value < T.node[target_node].key
         THEN insertLoop(T, target_node, T.node[target_node].left, value, fuel - 1)
         ELSE insertLoop(T, target_node, T.node[target_node].right, value, fuel - 1)

\* new_node is the address std::make_shared returns.
insert(T, value, new_node) ==
    LET parent_node == insertLoop(T, NIL, T.root, value, LoopFuel)
        T1 == [T EXCEPT !.node[new_node] = Node(value, NIL, parent_node, NIL),
                        !.live = @ \cup {new_node}]
    IN IF parent_node = HANG THEN Ends(T, "hang")
       ELSE IF parent_node = NIL THEN [T1 EXCEPT !.root = new_node]
       ELSE IF value < T.node[parent_node].key
            THEN [T1 EXCEPT !.node[parent_node].left = new_node]
            ELSE [T1 EXCEPT !.node[parent_node].right = new_node]

\* while (current_node->right) current_node = current_node->right;
RECURSIVE rightLoop(_, _, _)
rightLoop(T, current_node, fuel) ==
    IF T.node[current_node].right = NIL THEN current_node
    ELSE IF fuel = 0 THEN HANG
    ELSE rightLoop(T, T.node[current_node].right, fuel - 1)

\* while (current_node->left) current_node = current_node->left;
RECURSIVE leftLoop(_, _, _)
leftLoop(T, current_node, fuel) ==
    IF T.node[current_node].left = NIL THEN current_node
    ELSE IF fuel = 0 THEN HANG
    ELSE leftLoop(T, T.node[current_node].left, fuel - 1)

KeyOf(T, n) == IF n = HANG THEN Hang ELSE Ok(T.node[n].key)

max(T) == IF T.root = NIL THEN Throw(EmptyMsg) ELSE KeyOf(T, rightLoop(T, T.root, LoopFuel))

min(T) == IF T.root = NIL THEN Throw(EmptyMsg) ELSE KeyOf(T, leftLoop(T, T.root, LoopFuel))

\* The upward loop of predecessor: the parent_node it ends with.
RECURSIVE upFromLeft(_, _, _, _)
upFromLeft(T, target_node, parent_node, fuel) ==
    IF ~(parent_node # NIL /\ target_node = T.node[parent_node].left) THEN parent_node
    ELSE IF fuel = 0 THEN HANG
    ELSE upFromLeft(T, parent_node, T.node[parent_node].parent, fuel - 1)

\* The upward loop of successor written as an if: it climbs one step at most.
upFromRight_once(T, target_node, parent_node, fuel) ==
    IF parent_node # NIL /\ target_node = T.node[parent_node].right
    THEN T.node[parent_node].parent
    ELSE parent_node

\* The upward loop of successor: the parent_node it ends with.
RECURSIVE upFromRight(_, _, _, _)
upFromRight(T, target_node, parent_node, fuel) ==
    IF ~(parent_node # NIL /\ target_node = T.node[parent_node].right) THEN parent_node
    ELSE IF fuel = 0 THEN HANG
    ELSE upFromRight(T, parent_node, T.node[parent_node].parent, fuel - 1)

\* predecessor that takes the left child without walking to its maximum.
predecessor_leftChild(T, value) ==
    LET target_node == findValue(T, value)
    IN IF target_node = HANG THEN Hang
       ELSE IF target_node = NIL THEN Throw(NotFoundMsg)
       ELSE IF T.node[target_node].left # NIL
       THEN KeyOf(T, T.node[target_node].left)
       ELSE LET parent_node == upFromLeft(T, target_node, T.node[target_node].parent, LoopFuel)
            IN IF parent_node = NIL THEN Throw(BoundaryMsg)
               ELSE KeyOf(T, parent_node)

predecessor(T, value) ==
    LET target_node == findValue(T, value)
    IN IF target_node = HANG THEN Hang
       ELSE IF target_node = NIL THEN Throw(NotFoundMsg)
       ELSE IF T.node[target_node].left # NIL
       THEN KeyOf(T, rightLoop(T, T.node[target_node].left, LoopFuel))
       ELSE LET parent_node == upFromLeft(T, target_node, T.node[target_node].parent, LoopFuel)
            IN IF parent_node = NIL THEN Throw(BoundaryMsg)
               ELSE KeyOf(T, parent_node)

\* successor that takes the right child without walking to its minimum.
successor_rightChild(T, value) ==
    LET target_node == findValue(T, value)
    IN IF target_node = HANG THEN Hang
       ELSE IF target_node = NIL THEN Throw(NotFoundMsg)
       ELSE IF T.node[target_node].right # NIL
       THEN KeyOf(T, T.node[target_node].right)
       ELSE LET parent_node == upFromRight(T, target_node, T.node[target_node].parent, LoopFuel)
            IN IF parent_node = NIL THEN Throw(BoundaryMsg)
               ELSE KeyOf(T, parent_node)

successor(T, value) ==
    LET target_node == findValue(T, value)
    IN IF target_node = HANG THEN Hang
       ELSE IF target_node = NIL THEN Throw(NotFoundMsg)
       ELSE IF T.node[target_node].right # NIL
       THEN KeyOf(T, leftLoop(T, T.node[target_node].right, LoopFuel))
       ELSE LET parent_node == upFromRight(T, target_node, T.node[target_node].parent, LoopFuel)
            IN IF parent_node = NIL THEN Throw(BoundaryMsg)
               ELSE KeyOf(T, parent_node)

\* The two-children branch of remove once successor_node is known.
removeTwoChildren(T, target_node, successor_node) ==
    IF successor_node = NIL THEN Ends(T, "nullderef")
    ELSE
      LET T1 == IF T.node[successor_node].parent # target_node
                THEN LET A == transplant(T, successor_node, T.node[successor_node].right)
                         B == [A EXCEPT !.node[successor_node].right = A.node[target_node].right]
                         r == B.node[successor_node].right
                     IN IF A.out # "ok" THEN A
                        ELSE IF r = NIL THEN Ends(B, "nullderef")
                        ELSE [B EXCEPT !.node[r].parent = successor_node]
                ELSE T
          T2 == transplant(T1, target_node, successor_node)
          T3 == [T2 EXCEPT !.node[successor_node].left = T2.node[target_node].left]
          l == T3.node[successor_node].left
      IN IF T2.out # "ok" THEN T2
         ELSE IF l = NIL THEN Ends(T3, "nullderef")
         ELSE [T3 EXCEPT !.node[l].parent = successor_node]

\* When remove returns, its local shared_ptrs go away: a node that no root,
\* left, right or parent pointer names any more is destroyed, and its own three
\* pointers go with it.
RECURSIVE release(_)
release(T) ==
    LET held == {T.root} \cup {T.node[i].left : i \in T.live}
                         \cup {T.node[i].right : i \in T.live}
                         \cup {T.node[i].parent : i \in T.live}
        dead == T.live \ held
    IN IF T.out # "ok" \/ dead = {} THEN T
       ELSE release([T EXCEPT !.live = @ \ dead,
                              !.node = [i \in Ids |-> IF i \in dead THEN FreeNode ELSE @[i]]])

remove(T, value) ==
    LET target_node == findValue(T, value)
    IN IF target_node = HANG THEN Ends(T, "hang")
       ELSE IF target_node = NIL THEN T
       ELSE IF T.node[target_node].left = NIL
       THEN release(transplant(T, target_node, T.node[target_node].right))
       ELSE IF T.node[target_node].right = NIL
       THEN release(transplant(T, target_node, T.node[target_node].left))
       ELSE LET s == successor(T, T.node[target_node].key)
            IN IF s.kind = "hang" THEN Ends(T, "hang")
               ELSE IF s.kind = "throw" THEN [T EXCEPT !.out = "throw", !.what = s.what]
               ELSE LET successor_node == findValue(T, s.val)
                    IN IF successor_node = HANG THEN Ends(T, "hang")
                       ELSE release(removeTwoChildren(T, target_node, successor_node))

----
\* The reference the tests compare with: the keys inserted and not yet removed.
Present(k) == expected[k] > 0

\* BinaryTree::BinaryTree(): the empty tree.
InitTree ==
    /\ root = NIL
    /\ node = [i \in Ids |-> FreeNode]
    /\ live = {}
    /\ allocated = 0
    /\ status = "running"
    /\ last = [op |-> "BinaryTree", arg |-> 0, res |-> Ok(0)]
    /\ expected = [k \in Keys |-> 0]
    /\ distinct = TRUE

\* RedBlackTree::RedBlackTree(): root(nullptr).
InitRedBlack ==
    /\ rbRoot = NIL
    /\ rbNode = <<>>
    /\ rbStatus = "running"
    /\ rbLast = [op |-> "RedBlackTree", arg |-> 0, res |-> Ok(0)]
    /\ rbCursor = NIL

\* No free function has been called.
NoCall ==
    /\ callInput = <<>>
    /\ callPrices = <<>>
    /\ callOutput = [fn |-> "none", res |-> Ok(0)]

Init == InitTree /\ InitRedBlack /\ NoCall

Finish(T, op, arg) ==
    /\ root' = T.root
    /\ node' = T.node
    /\ live' = T.live
    /\ status' \in IF T.out = "nullderef" THEN NullDerefOutcomes
                  ELSE IF T.out = "hang" THEN {"hang"} ELSE {"running"}
    /\ last' = [op |-> op, arg |-> arg,
                res |-> IF T.out = "throw" THEN Throw(T.what)
                        ELSE IF T.out = "hang" THEN Hang ELSE Ok(0)]

Insert(value) ==
    /\ status = "running"
    /\ allocated < MaxNodes
    /\ Finish(insert(Tree, value, allocated + 1), "insert", value)
    /\ allocated' = allocated + 1
    /\ expected' = [expected EXCEPT ![value] = @ + 1]
    /\ distinct' = (distinct /\ ~Present(value))
    /\ UNCHANGED <<rbVars, callVars>>

Remove(value) ==
    /\ status = "running"
    /\ Finish(remove(Tree, value), "remove", value)
    /\ expected' = [expected EXCEPT ![value] = IF @ > 0 THEN @ - 1 ELSE 0]
    /\ UNCHANGED <<allocated, distinct, rbVars, callVars>>

\* A query that empties the tree it has read.
Query_consuming(op, arg, res) ==
    /\ status = "running"
    /\ last' = [op |-> op, arg |-> arg, res |-> res]
    /\ status' = IF res.kind = "hang" THEN "hang" ELSE "running"
    /\ root' = IF res.kind = "value" THEN NIL ELSE root
    /\ UNCHANGED <<node, live, allocated, expected, distinct, rbVars, callVars>>

Query(op, arg, res) ==
    /\ status = "running"
    /\ last' = [op |-> op, arg |-> arg, res |-> res]
    /\ status' = IF res.kind = "hang" THEN "hang" ELSE "running"
    /\ UNCHANGED <<root, node, live, allocated, expected, distinct, rbVars, callVars>>

GetSortedValues == Query("getSortedValues", 0, getSortedValues(Tree))

Max == Query("max", 0, max(Tree))

Min == Query("min", 0, min(Tree))

Predecessor(value) == Query("predecessor", value, predecessor(Tree, value))

Successor(value) == Query("successor", value, successor(Tree, value))

Next ==
    \/ \E value \in Keys : Insert(value)
    \/ \E value \in Keys : Remove(value)
    \/ GetSortedValues
    \/ Max
    \/ Min
    \/ \E value \in Keys : Predecessor(value)
    \/ \E value \in Keys : Successor(value)

Spec == Init /\ [][Next]_vars

\* The calls that change the tree, without the queries in between.
NextUpdate ==
    \/ \E value \in Keys : Insert(value)
    \/ \E value \in Keys : Remove(value)

SpecUpdate == Init /\ [][NextUpdate]_vars

\* Every call of the class, on trees of two nodes less.
QueryNodes == MaxNodes - 2

InsertSmall(value) == allocated < QueryNodes /\ Insert(value)

NextQuery ==
    \/ \E value \in Keys : InsertSmall(value)
    \/ \E value \in Keys : Remove(value)
    \/ GetSortedValues
    \/ Max
    \/ Min
    \/ \E value \in Keys : Predecessor(value)
    \/ \E value \in Keys : Successor(value)

SpecQuery == Init /\ [][NextQuery]_vars

----
(***************************************************************************)
(* RedBlackTree (include/red_black_tree.h).  The nodes carry a colour; the *)
(* node at address i is R.node[i].                                         *)
(***************************************************************************)
RbMaxKey == 4
RbMaxNodes == 8

RbKeys == 1..RbMaxKey

\* detail::Color
RED == "RED"
BLACK == "BLACK"

\* detail::RedBlackNode
RedBlackNode(k, l, p, r, c) ==
    [key |-> k, left |-> l, parent |-> p, right |-> r, color |-> c]

\* The object a member function of RedBlackTree works on.
RbTree == [root |-> rbRoot, node |-> rbNode, out |-> "ok"]

\* RedBlackTree::leftRotate: only the first two statements of a rotation.
leftRotate(R, n) ==
    LET right == R.node[n].right
    IN IF right = NIL THEN Ends(R, "nullderef")
       ELSE [R EXCEPT !.node[n].right = R.node[right].left]

\* RedBlackTree::rightRotate: the body is empty.
rightRotate(R, n) == R

\* Lines 124-126, and 141-143 with rotate = "left": the parent becomes BLACK,
\* the grandparent RED, and the grandparent is rotated.
recolorAndRotate(R, n, rotate) ==
    LET p == R.node[n].parent
    IN IF p = NIL THEN Ends(R, "nullderef")
       ELSE LET R1 == [R EXCEPT !.node[p].color = BLACK]
                g == R1.node[p].parent
            IN IF g = NIL THEN Ends(R1, "nullderef")
               ELSE LET R2 == [R1 EXCEPT !.node[g].color = RED]
                    IN IF rotate = "left" THEN leftRotate(R2, g)
                       ELSE rightRotate(R2, g)

\* Case 1 (lines 97-99 and 132-134): parent and uncle BLACK, grandparent RED.
recolorUncle(R, p, uncle, g) ==
    [R EXCEPT !.node[p].color = BLACK,
              !.node[uncle].color = BLACK,
              !.node[g].color = RED]

\* One pass through the body of the while loop of insertFixup (lines 90-146),
\* entered with node = n, a RED parent p and whatever grandparent g there is:
\* the tree it leaves and the node the next test of the loop condition reads.
\* In the left branch lines 124-126 stand after the if/else of lines 92-112,
\* so they run after Case 1 too, on the node Case 1 moved to.
fixupBody(R, n) ==
    LET p == R.node[n].parent
        g == R.node[p].parent
        Pass(T, c) == [tree |-> T, cursor |-> c]
    IN IF g = NIL THEN Pass(Ends(R, "nullderef"), n)
       ELSE IF p = R.node[g].left
       THEN LET uncle == R.node[g].right
            IN IF uncle = NIL THEN Pass(Ends(R, "nullderef"), n)
               ELSE IF R.node[uncle].color = RED
               THEN Pass(recolorAndRotate(recolorUncle(R, p, uncle, g), g, "right"), g)
               ELSE IF n = R.node[p].right
               THEN LET R1 == leftRotate(R, p)
                    IN IF R1.out # "ok" THEN Pass(R1, p)
                       ELSE Pass(recolorAndRotate(R1, p, "right"), p)
               ELSE Pass(recolorAndRotate(R, n, "right"), n)
       ELSE LET uncle == R.node[g].left
            IN IF uncle = NIL THEN Pass(Ends(R, "nullderef"), n)
               ELSE IF R.node[uncle].color = RED
               THEN Pass(recolorUncle(R, p, uncle, g), g)
               ELSE IF n = R.node[p].left
               THEN Pass(recolorAndRotate(rightRotate(R, p), p, "left"), p)
               ELSE Pass(recolorAndRotate(R, n, "left"), n)

\* The test of line 89: node->parent && node->parent->color == RED.
fixupGoesOn(R, n) == R.node[n].parent # NIL /\ R.node[R.node[n].parent].color = RED

\* The while loop of insertFixup without its last statement.
RECURSIVE fixupLoop(_, _, _)
fixupLoop(R, n, fuel) ==
    IF R.out # "ok" THEN R
    ELSE IF ~fixupGoesOn(R, n) THEN R
    ELSE IF fuel = 0 THEN Ends(R, "hang")
    ELSE fixupLoop(fixupBody(R, n).tree, fixupBody(R, n).cursor, fuel - 1)

\* insertFixup without line 150: the root keeps the colour the loop left.
insertFixup_rootAsIs(R, n) == fixupLoop(R, n, Len(R.node) + 1)

\* RedBlackTree::insertFixup
insertFixup(R, n) ==
    LET R1 == fixupLoop(R, n, Len(R.node) + 1)
    IN IF R1.out # "ok" THEN R1
       ELSE [R1 EXCEPT !.node[R1.root].color = BLACK]

\* The walk of RedBlackTree::insert (lines 199-211): the future parent.
RECURSIVE rbInsertLoop(_, _, _, _, _)
rbInsertLoop(R, parent_node, target_node, value, fuel) ==
    IF target_node = NIL THEN parent_node
    ELSE IF fuel = 0 THEN HANG
    ELSE rbInsertLoop(R, target_node,
                      IF value < R.node[target_node].key
                      THEN R.node[target_node].left
                      ELSE R.node[target_node].right,
                      value, fuel - 1)

\* RedBlackTree::insert up to its last statement (lines 196-229): the new RED
\* node, at address Len(R.node) + 1, hangs below the node the walk ended at.
rbLink(R, value) ==
    LET parent_node == rbInsertLoop(R, NIL, R.root, value, Len(R.node) + 1)
        new_node == Len(R.node) + 1
        R1 == [R EXCEPT !.node = Append(@, RedBlackNode(value, NIL, parent_node, NIL, RED))]
    IN IF parent_node = HANG THEN Ends(R, "hang")
       ELSE IF parent_node = NIL THEN [R1 EXCEPT !.root = new_node]
       ELSE IF value < R.node[parent_node].key
       THEN [R1 EXCEPT !.node[parent_node].left = new_node]
       ELSE [R1 EXCEPT !.node[parent_node].right = new_node]

\* RedBlackTree::insert
rbInsert(R, value) ==
    LET R1 == rbLink(R, value)
    IN IF R1.out # "ok" THEN R1 ELSE insertFixup(R1, Len(R1.node))

\* RedBlackTree::remove: the body is empty.
rbRemove(R, value) == R

\* RedBlackTree::getSortedValues returns the empty vector it declares.
rbGetSortedValues(R) == Ok(<<>>)

\* RedBlackTree::max, min, predecessor and successor: return 0.0;
rbMax(R) == Ok(0)

rbMin(R) == Ok(0)

rbPredecessor(R, value) == Ok(0)

rbSuccessor(R, value) == Ok(0)

RbFinish(R, op, arg) ==
    /\ rbRoot' = R.root
    /\ rbNode' = R.node
    /\ rbStatus' \in IF R.out = "nullderef" THEN NullDerefOutcomes
                    ELSE IF R.out = "hang" THEN {"hang"} ELSE {"running"}
    /\ rbLast' = [op |-> op, arg |-> arg, res |-> Ok(0)]
    /\ rbCursor' = NIL

RbInsert(value) ==
    /\ rbStatus = "running"
    /\ Len(rbNode) < RbMaxNodes
    /\ RbFinish(rbInsert(RbTree, value), "insert", value)
    /\ UNCHANGED <<treeVars, callVars>>

RbRemove(value) ==
    /\ rbStatus = "running"
    /\ RbFinish(rbRemove(RbTree, value), "remove", value)
    /\ UNCHANGED <<treeVars, callVars>>

RbQuery(op, arg, res) ==
    /\ rbStatus = "running"
    /\ rbLast' = [op |-> op, arg |-> arg, res |-> res]
    /\ UNCHANGED <<rbRoot, rbNode, rbStatus, rbCursor, treeVars, callVars>>

NextRedBlack ==
    \/ \E value \in RbKeys : RbInsert(value)
    \/ \E value \in RbKeys : RbRemove(value)
    \/ RbQuery("getSortedValues", 0, rbGetSortedValues(RbTree))
    \/ RbQuery("max", 0, rbMax(RbTree))
    \/ RbQuery("min", 0, rbMin(RbTree))
    \/ \E value \in RbKeys : RbQuery("predecessor", value, rbPredecessor(RbTree, value))
    \/ \E value \in RbKeys : RbQuery("successor", value, rbSuccessor(RbTree, value))

SpecRedBlack == Init /\ [][NextRedBlack]_vars

\* RedBlackTree::insert seen one step at a time.  Lines 196-230: the walk and
\* the attachment of the new node, up to the call of insertFixup(new_node).
RbLink(value) ==
    /\ rbStatus = "running"
    /\ rbCursor = NIL
    /\ Len(rbNode) < RbMaxNodes
    /\ LET R == rbLink(RbTree, value)
       IN /\ rbRoot' = R.root
          /\ rbNode' = R.node
          /\ rbStatus' = IF R.out = "hang" THEN "hang" ELSE "running"
          /\ rbCursor' = IF R.out = "ok" THEN Len(R.node) ELSE NIL
    /\ rbLast' = [op |-> "insert", arg |-> value, res |-> Ok(0)]
    /\ UNCHANGED <<treeVars, callVars>>

\* The loop condition of line 89 holds: the body of lines 90-146 runs once.
FixupIteration ==
    /\ rbStatus = "running"
    /\ rbCursor # NIL
    /\ fixupGoesOn(RbTree, rbCursor)
    /\ LET pass == fixupBody(RbTree, rbCursor)
       IN /\ rbRoot' = pass.tree.root
          /\ rbNode' = pass.tree.node
          /\ rbStatus' \in IF pass.tree.out = "nullderef" THEN NullDerefOutcomes
                          ELSE {"running"}
          /\ rbCursor' = pass.cursor
    /\ UNCHANGED <<rbLast, treeVars, callVars>>

\* The loop condition fails: line 150 blackens the root and insert returns.
FixupExit ==
    /\ rbStatus = "running"
    /\ rbCursor # NIL
    /\ ~fixupGoesOn(RbTree, rbCursor)
    /\ rbNode' = [rbNode EXCEPT ![rbRoot].color = BLACK]
    /\ rbCursor' = NIL
    /\ UNCHANGED <<rbRoot, rbStatus, rbLast, treeVars, callVars>>

NextFixup ==
    \/ \E value \in RbKeys : RbLink(value)
    \/ FixupIteration
    \/ FixupExit

SpecFixup == Init /\ [][NextFixup]_vars

\* One thread runs insert: a call that has started goes on executing.
FairFixup == SpecFixup /\ WF_vars(FixupIteration) /\ WF_vars(FixupExit)

\* The same calls made on a BinaryTree and on a RedBlackTree, side by side.
BothInsert(value) ==
    /\ status = "running"
    /\ rbStatus = "running"
    /\ allocated < QueryNodes
    /\ Finish(insert(Tree, value, allocated + 1), "insert", value)
    /\ allocated' = allocated + 1
    /\ expected' = [expected EXCEPT ![value] = @ + 1]
    /\ distinct' = (distinct /\ ~Present(value))
    /\ RbFinish(rbInsert(RbTree, value), "insert", value)
    /\ UNCHANGED callVars

BothRemove(value) ==
    /\ status = "running"
    /\ rbStatus = "running"
    /\ Finish(remove(Tree, value), "remove", value)
    /\ expected' = [expected EXCEPT ![value] = IF @ > 0 THEN @ - 1 ELSE 0]
    /\ RbFinish(rbRemove(RbTree, value), "remove", value)
    /\ UNCHANGED <<allocated, distinct, callVars>>

BothQuery(op, arg, res, rbRes) ==
    /\ status = "running"
    /\ rbStatus = "running"
    /\ last' = [op |-> op, arg |-> arg, res |-> res]
    /\ status' = IF res.kind = "hang" THEN "hang" ELSE "running"
    /\ rbLast' = [op |-> op, arg |-> arg, res |-> rbRes]
    /\ UNCHANGED <<root, node, live, allocated, expected, distinct>>
    /\ UNCHANGED <<rbRoot, rbNode, rbStatus, rbCursor, callVars>>

NextEquivalence ==
    \/ \E value \in Keys : BothInsert(value)
    \/ \E value \in Keys : BothRemove(value)
    \/ BothQuery("getSortedValues", 0, getSortedValues(Tree), rbGetSortedValues(RbTree))
    \/ BothQuery("max", 0, max(Tree), rbMax(RbTree))
    \/ BothQuery("min", 0, min(Tree), rbMin(RbTree))
    \/ \E value \in Keys :
          BothQuery("predecessor", value, predecessor(Tree, value), rbPredecessor(RbTree, value))
    \/ \E value \in Keys :
          BothQuery("successor", value, successor(Tree, value), rbSuccessor(RbTree, value))

SpecEquivalence == Init /\ [][NextEquivalence]_vars

\* Nodes of the red-black tree reachable from n through left and right.
RECURSIVE RbBelow(_, _, _)
RbBelow(R, n, fuel) ==
    IF n = NIL \/ fuel = 0 THEN {}
    ELSE {n} \cup RbBelow(R, R.node[n].left, fuel - 1)
             \cup RbBelow(R, R.node[n].right, fuel - 1)

RbReach(R) == RbBelow(R, R.root, Len(R.node))

\* Number of nodes on the longest path from n down to a leaf.
RECURSIVE RbHeight(_, _, _)
RbHeight(R, n, fuel) ==
    IF n = NIL \/ fuel = 0 THEN 0
    ELSE LET l == RbHeight(R, R.node[n].left, fuel - 1)
             r == RbHeight(R, R.node[n].right, fuel - 1)
         IN 1 + (IF l > r THEN l ELSE r)

\* The numbers of BLACK nodes on the paths from n down to a leaf position.
RECURSIVE BlackCounts(_, _, _)
BlackCounts(R, n, fuel) ==
    IF n = NIL \/ fuel = 0 THEN {0}
    ELSE LET own == IF R.node[n].color = BLACK THEN 1 ELSE 0
         IN {own + c : c \in BlackCounts(R, R.node[n].left, fuel - 1)
                            \cup BlackCounts(R, R.node[n].right, fuel - 1)}

\* The keys of the subtree of n from left to right (the in-order walk).
RECURSIVE RbInorder(_, _, _)
RbInorder(R, n, fuel) ==
    IF n = NIL \/ fuel = 0 THEN <<>>
    ELSE RbInorder(R, R.node[n].left, fuel - 1) \o <<R.node[n].key>>
             \o RbInorder(R, R.node[n].right, fuel - 1)

NoRedRed(R) ==
    \A n \in RbReach(R) :
        R.node[n].color = RED =>
            \A c \in {R.node[n].left, R.node[n].right} \ {NIL} : R.node[c].color = BLACK

EqualBlackHeight(R) == Cardinality(BlackCounts(R, R.root, Len(R.node))) = 1

RbRunning == rbStatus = "running"

----
(***************************************************************************)
(* namespace Sorting (include/sorting.h).  A std::vector is a sequence,    *)
(* the element at C++ index i is At(v, i).  Doubles are integers in the    *)
(* same order: the sorts only compare them.                                *)
(***************************************************************************)
MaxLen == 4
MaxValue == 2

\* std::numeric_limits<double>::max(), the largest finite double, and the
\* IEEE infinity above it.
DBL_MAX == MaxValue + 1
INFINITY == DBL_MAX + 1

Doubles == (1..MaxValue) \cup {DBL_MAX, INFINITY}

\* size_t arithmetic wraps around; the width is narrowed to SizeBits bits.
SizeBits == 16
SizeT(x) == x % (2 ^ SizeBits)
\* size_t(-1)
NPOS == SizeT(0 - 1)

At(v, i) == v[i + 1]

Put(v, i, x) == [v EXCEPT ![i + 1] = x]

Vectors(S, n) == UNION {[1..k -> S] : k \in 0..n}

\* A read past the end of a vector is undefined: a library built with
\* assertions aborts, otherwise the call goes on with whatever the memory holds.
OutOfBoundsOutcomes ==
    {[kind |-> k, what |-> "", val |-> 0] : k \in {"abort", "garbage"}}

\* The while loop of insertionSort (lines 43-47).
RECURSIVE shiftLoop(_, _, _)
shiftLoop(output, j, key) ==
    IF j # NPOS /\ At(output, j) > key
    THEN shiftLoop(Put(output, SizeT(j + 1), At(output, j)), SizeT(j - 1), key)
    ELSE Put(output, SizeT(j + 1), key)

RECURSIVE insertionLoop(_, _)
insertionLoop(output, i) ==
    IF i < Len(output)
    THEN insertionLoop(shiftLoop(output, SizeT(i - 1), At(output, i)), i + 1)
    ELSE output

\* Sorting::insertionSort
insertionSort(input) == insertionLoop(input, 1)

\* Sorting::detail::maxHeapify
RECURSIVE maxHeapify(_, _, _)
maxHeapify(array, heap_size, current_index) ==
    LET left == SizeT(2 * current_index + 1)
        right == SizeT(2 * current_index + 2)
        largest1 == IF left <= SizeT(heap_size - 1) /\ At(array, left) > At(array, current_index)
                    THEN left ELSE current_index
        largest == IF right <= SizeT(heap_size - 1) /\ At(array, right) > At(array, largest1)
                   THEN right ELSE largest1
    IN IF largest # current_index
       THEN maxHeapify(Put(Put(array, current_index, At(array, largest)),
                           largest, At(array, current_index)),
                       heap_size, largest)
       ELSE array

RECURSIVE buildLoop(_, _)
buildLoop(result, i) ==
    IF i # NPOS THEN buildLoop(maxHeapify(result, Len(result), i), SizeT(i - 1))
    ELSE result

\* Sorting::detail::buildMaxHeap
buildMaxHeap(input) == buildLoop(input, SizeT(Len(input) - 1) \div 2)

RECURSIVE heapLoop(_, _, _)
heapLoop(output, heap_size, i) ==
    IF i > 0
    THEN heapLoop(maxHeapify(Put(Put(output, i, At(output, 0)), 0, At(output, i)),
                             heap_size - 1, 0),
                  heap_size - 1, SizeT(i - 1))
    ELSE output

\* Sorting::heapSort
heapSort(input) ==
    IF Len(input) < 1 THEN input
    ELSE LET output == buildMaxHeap(input)
         IN heapLoop(output, Len(output), SizeT(Len(output) - 1))

\* A vector being sorted in place, and whether a read has left a vector.
InPlace(v) == [v |-> v, out |-> "ok"]

\* The last loop of detail::merge (lines 145-153).
RECURSIVE mergeLoop(_, _, _, _, _, _, _)
mergeLoop(input, left, right, i, j, k, r) ==
    IF k > r THEN InPlace(input)
    ELSE IF i >= Len(left) \/ j >= Len(right) THEN [v |-> input, out |-> "oob"]
    ELSE IF At(left, i) <= At(right, j)
    THEN mergeLoop(Put(input, k, At(left, i)), left, right, i + 1, j, k + 1, r)
    ELSE mergeLoop(Put(input, k, At(right, j)), left, right, i, j + 1, k + 1, r)

\* Sorting::detail::merge
merge(input, p, q, r) ==
    mergeLoop(input,
              SubSeq(input, p + 1, q + 1) \o <<DBL_MAX>>,
              SubSeq(input, q + 2, r + 1) \o <<DBL_MAX>>,
              0, 0, p, r)

\* Sorting::detail::mergeSort
RECURSIVE mergeSortRange(_, _, _)
mergeSortRange(S, start_index, end_index) ==
    IF S.out # "ok" \/ ~(start_index < end_index) THEN S
    ELSE LET mid_index == (start_index + end_index) \div 2
             S1 == mergeSortRange(S, start_index, mid_index)
             S2 == mergeSortRange(S1, mid_index + 1, end_index)
         IN IF S2.out # "ok" THEN S2
            ELSE merge(S2.v, start_index, mid_index, end_index)

\* Sorting::mergeSort
mergeSort(input) ==
    IF Len(input) >= 1 THEN mergeSortRange(InPlace(input), 0, SizeT(Len(input) - 1))
    ELSE InPlace(input)

\* The for loop of detail::quickPartition: the vector and pivot_index.
RECURSIVE partitionLoop(_, _, _, _, _)
partitionLoop(input, pivot_value, pivot_index, i, end_index) ==
    IF i < end_index
    THEN IF At(input, i) <= pivot_value
         THEN LET next == SizeT(pivot_index + 1)
              IN partitionLoop(Put(Put(input, next, At(input, i)), i, At(input, next)),
                               pivot_value, next, i + 1, end_index)
         ELSE partitionLoop(input, pivot_value, pivot_index, i + 1, end_index)
    ELSE [v |-> input, pivot_index |-> pivot_index]

\* Sorting::detail::quickPartition
quickPartition(input, start_index, end_index) ==
    LET P == partitionLoop(input, At(input, end_index), SizeT(start_index - 1),
                           start_index, end_index)
        spot == SizeT(P.pivot_index + 1)
    IN [v |-> Put(Put(P.v, spot, At(P.v, end_index)), end_index, At(P.v, spot)),
        pivot_index |-> spot]

\* Sorting::detail::quickSort
RECURSIVE quickSortRange(_, _, _)
quickSortRange(input, start_index, end_index) ==
    IF start_index < end_index /\ end_index # NPOS
    THEN LET P == quickPartition(input, start_index, end_index)
         IN quickSortRange(quickSortRange(P.v, start_index, SizeT(P.pivot_index - 1)),
                           SizeT(P.pivot_index + 1), end_index)
    ELSE input

\* Sorting::quickSort
quickSort(input) ==
    IF Len(input) > 0 THEN quickSortRange(input, 0, SizeT(Len(input) - 1))
    ELSE input

\* A call of one of the free functions: the argument is a const reference.
Call(fn, res) ==
    /\ callOutput' = [fn |-> fn, res |-> res]
    /\ UNCHANGED <<callInput, callPrices, treeVars, rbVars>>

InsertionSort == Call("insertionSort", Ok(insertionSort(callInput)))

MergeSort ==
    LET S == mergeSort(callInput)
    IN \E res \in IF S.out = "ok" THEN {Ok(S.v)} ELSE OutOfBoundsOutcomes :
           Call("mergeSort", res)

HeapSort == Call("heapSort", Ok(heapSort(callInput)))

QuickSort == Call("quickSort", Ok(quickSort(callInput)))

\* The trees are empty and a free function is about to be called with one of
\* the given vectors.
InitCall(inputs) ==
    /\ InitTree
    /\ InitRedBlack
    /\ callInput \in inputs
    /\ callPrices = <<>>
    /\ callOutput = [fn |-> "none", res |-> Ok(0)]

NextSort == InsertionSort \/ MergeSort \/ HeapSort \/ QuickSort

SpecSort == InitCall(Vectors(Doubles, MaxLen)) /\ [][NextSort]_vars

\* std::sort of the tests: the elements of v in ascending order.
RECURSIVE Ascending(_)
Ascending(v) ==
    IF v = <<>> THEN <<>>
    ELSE LET low == CHOOSE i \in 1..Len(v) : \A j \in 1..Len(v) : v[i] <= v[j]
         IN <<v[low]>> \o Ascending(SubSeq(v, 1, low - 1) \o SubSeq(v, low + 1, Len(v)))

----
(***************************************************************************)
(* Sorting::bucketSort.  Its keys are multiples of 1/Unit: the integer v   *)
(* stands for the double v / Unit, so Unit stands for 1.0.                 *)
(***************************************************************************)
Unit == 4

BucketKeys == (0 - 1)..(Unit + 1)

\* what() of the std::out_of_range bucketSort throws
RangeMsg == "Keys must be in the range [0, )"

\* The first loop of bucketSort (lines 449-457): k elements have been placed.
RECURSIVE fillBuckets(_, _, _)
fillBuckets(input, buckets, k) ==
    IF k = Len(input) THEN [out |-> "ok", buckets |-> buckets]
    ELSE LET i == At(input, k)
             index == (Len(input) * i) \div Unit
         IN IF i >= Unit \/ i < 0 THEN [out |-> "throw", buckets |-> buckets]
            ELSE IF index >= Len(buckets) THEN [out |-> "oob", buckets |-> buckets]
            ELSE fillBuckets(input, Put(buckets, index, Append(At(buckets, index), i)), k + 1)

\* The second loop of bucketSort (lines 461-466).
RECURSIVE collect(_, _, _)
collect(buckets, output, b) ==
    IF b = Len(buckets) THEN output
    ELSE collect(buckets, output \o insertionSort(At(buckets, b)), b + 1)

\* bucketSort that returns the buckets it has filled when it meets a key
\* outside the range.
bucketSort_noThrow(input) ==
    LET F == fillBuckets(input, [b \in 1..Len(input) |-> <<>>], 0)
    IN [out |-> IF F.out = "throw" THEN "ok" ELSE F.out,
        res |-> Ok(collect(F.buckets, <<>>, 0))]

\* Sorting::bucketSort
bucketSort(input) ==
    LET F == fillBuckets(input, [b \in 1..Len(input) |-> <<>>], 0)
    IN [out |-> F.out,
        res |-> IF F.out = "throw" THEN Throw(RangeMsg)
                ELSE Ok(collect(F.buckets, <<>>, 0))]

BucketSort ==
    LET B == bucketSort(callInput)
    IN \E res \in IF B.out = "oob" THEN OutOfBoundsOutcomes ELSE {B.res} :
           Call("bucketSort", res)

SpecBucket == InitCall(Vectors(BucketKeys, MaxLen)) /\ [][BucketSort]_vars

\* The positions of v that hold a key outside [0, 1).
OutOfRange(v) == {k \in 1..Len(v) : v[k] < 0 \/ v[k] >= Unit}

----
(***************************************************************************)
(* namespace RodCut (include/rod_cut.h).  Prices are integers.             *)
(***************************************************************************)
MaxRod == 5
MaxPrice == 2

Prices == (0 - 1)..MaxPrice

\* std::numeric_limits<double>::lowest(): below every sum of prices.
LOWEST == 0 - (MaxRod * (MaxPrice + 1) + 1)

Maximum(a, b) == IF a < b THEN b ELSE a

\* RodCut::detail::memoizedCutRod.  solutions is passed by value: what a
\* call stores in it (line 57) is gone when the call returns.
RECURSIVE memoizedCutRod(_, _, _)
RECURSIVE memoizedLoop(_, _, _, _, _)
memoizedLoop(length, prices, solutions, best_price, i) ==
    IF i <= length
    THEN memoizedLoop(length, prices, solutions,
                      Maximum(best_price,
                              prices[i] + memoizedCutRod(length - i, prices, solutions)),
                      i + 1)
    ELSE best_price

memoizedCutRod(length, prices, solutions) ==
    IF At(solutions, length) >= 0 THEN At(solutions, length)
    ELSE IF length = 0 THEN 0
    ELSE memoizedLoop(length, prices, solutions, LOWEST, 1)

\* The inner loop of bestRodCutBottomUp (lines 84-88).
RECURSIVE firstCutLoop(_, _, _, _, _)
firstCutLoop(prices, solutions, best_price, i, j) ==
    IF j <= i
    THEN firstCutLoop(prices, solutions,
                      Maximum(best_price, prices[j] + At(solutions, i - j)), i, j + 1)
    ELSE best_price

\* The outer loop of bestRodCutBottomUp (lines 78-91).
RECURSIVE bottomUpLoop(_, _, _, _)
bottomUpLoop(length, prices, solutions, i) ==
    IF i <= length
    THEN bottomUpLoop(length, prices,
                      Put(solutions, i, firstCutLoop(prices, solutions, LOWEST, i, 1)),
                      i + 1)
    ELSE solutions

\* RodCut::bestRodCutBottomUp
bestRodCutBottomUp(length, prices) ==
    At(bottomUpLoop(length, prices, [n \in 1..(length + 1) |-> 0], 1), length)

\* bestRodCutTopDown with the solutions filled with 0.0, as bestRodCutBottomUp
\* fills them.
bestRodCutTopDown_zeroed(length, prices) ==
    memoizedCutRod(length, prices, [n \in 1..(length + 1) |-> 0])

\* RodCut::bestRodCutTopDown
bestRodCutTopDown(length, prices) ==
    memoizedCutRod(length, prices, [n \in 1..(length + 1) |-> LOWEST])

BestRodCutTopDown ==
    Call("bestRodCutTopDown", Ok(bestRodCutTopDown(callInput, callPrices)))

BestRodCutBottomUp ==
    Call("bestRodCutBottomUp", Ok(bestRodCutBottomUp(callInput, callPrices)))

\* A length and a price for every length from 1 to it.
InitRodCut ==
    /\ InitTree
    /\ InitRedBlack
    /\ callInput \in 0..MaxRod
    /\ callPrices \in [1..callInput -> Prices]
    /\ callOutput = [fn |-> "none", res |-> Ok(0)]

NextRodCut == BestRodCutTopDown \/ BestRodCutBottomUp

SpecRodCut == InitRodCut /\ [][NextRodCut]_vars

\* The ways of cutting a rod of length n into pieces of positive length.
RECURSIVE Cuttings(_)
Cuttings(n) ==
    IF n = 0 THEN {<<>>}
    ELSE UNION {{<<k>> \o c : c \in Cuttings(n - k)} : k \in 1..n}

RECURSIVE Revenue(_, _)
Revenue(c, prices) == IF c = <<>> THEN 0 ELSE prices[Head(c)] + Revenue(Tail(c), prices)

BestRevenue(n, prices) ==
    LET all == {Revenue(c, prices) : c \in Cuttings(n)}
    IN CHOOSE best \in all : \A other \in all : other <= best

----
(***************************************************************************)
(* maxSubarray (include/max_subarray.h).  The input is a vector of float:  *)
(* a float holds Precision significant bits, and a result with more is     *)
(* rounded to the nearest float, ties to the even significand.  The sums   *)
(* are made in double, which holds every sum of a few floats exactly.      *)
(***************************************************************************)
Precision == 3
MaxFloat == 16

\* The distance between neighbouring floats at magnitude m.
RECURSIVE Ulp(_, _)
Ulp(m, u) == IF m < u * (2 ^ Precision) THEN u ELSE Ulp(m, 2 * u)

\* float(x): the float nearest to x.
Round(x) ==
    LET m == IF x < 0 THEN 0 - x ELSE x
        u == Ulp(m, 1)
        q == m \div u
        rest == m % u
        up == 2 * rest > u \/ (2 * rest = u /\ q % 2 = 1)
        r == (IF up THEN q + 1 ELSE q) * u
    IN IF x < 0 THEN 0 - r ELSE r

Floats == {x \in 0..MaxFloat : Round(x) = x}

\* std::numeric_limits<double>::lowest(): below every sum of differences.
DBL_LOWEST == 0 - (2 * MaxLen * MaxFloat + 1)

\* what() of the std::invalid_argument maxSubarray throws
TooShortMsg == "Provided array must have at least two elements."

\* The first loop of detail::findMaxCrossingArray (lines 39-45).
RECURSIVE crossLeft(_, _, _, _, _, _)
crossLeft(input, low, i, sum, left_sum, max_left) ==
    IF i >= low /\ i # NPOS
    THEN LET s == sum + At(input, i)
         IN IF s > left_sum THEN crossLeft(input, low, SizeT(i - 1), s, s, i)
            ELSE crossLeft(input, low, SizeT(i - 1), s, left_sum, max_left)
    ELSE [sum |-> left_sum, index |-> max_left]

\* The second loop of detail::findMaxCrossingArray (lines 49-55).
RECURSIVE crossRight(_, _, _, _, _, _)
crossRight(input, high, i, sum, right_sum, max_right) ==
    IF i <= high
    THEN LET s == sum + At(input, i)
         IN IF s > right_sum THEN crossRight(input, high, i + 1, s, s, i)
            ELSE crossRight(input, high, i + 1, s, right_sum, max_right)
    ELSE [sum |-> right_sum, index |-> max_right]

\* std::tuple<size_t, size_t, double>
Tuple(low, high, sum) == [low |-> low, high |-> high, sum |-> sum]

\* detail::findMaxCrossingArray
findMaxCrossingArray(input, low, mid, high) ==
    LET L == crossLeft(input, low, mid, 0, DBL_LOWEST, mid)
        R == crossRight(input, high, mid + 1, 0, DBL_LOWEST, mid)
    IN Tuple(L.index, R.index, L.sum + R.sum)

\* detail::findMaxSubarray
RECURSIVE findMaxSubarray(_, _, _)
findMaxSubarray(input, low, high) ==
    IF high = low THEN Tuple(low, high, At(input, low))
    ELSE LET mid == (low + high) \div 2
             left == findMaxSubarray(input, low, mid)
             right == findMaxSubarray(input, mid + 1, high)
             cross == findMaxCrossingArray(input, low, mid, high)
         IN IF left.sum >= right.sum /\ left.sum >= cross.sum THEN left
            ELSE IF right.sum >= left.sum /\ right.sum >= cross.sum THEN right
            ELSE cross

\* The vector of differences maxSubarray builds (lines 125-129): each
\* difference is stored in a float.
Differences(input) == [i \in 1..(Len(input) - 1) |-> Round(input[i + 1] - input[i])]

\* maxSubarray
maxSubarray(input) ==
    IF Len(input) < 2 THEN Throw(TooShortMsg)
    ELSE LET differences == Differences(input)
             result == findMaxSubarray(differences, 0, SizeT(Len(differences) - 1))
         IN Ok(Tuple(result.low, result.high + 1, result.sum))

MaxSubarray == Call("maxSubarray", maxSubarray(callInput))

SpecMaxSubarray == InitCall(Vectors(Floats, MaxLen)) /\ [][MaxSubarray]_vars

----
\* Nodes reachable from the root through left and right.
RECURSIVE Closure(_, _, _)
Closure(T, S, n) ==
    IF n = 0 THEN S
    ELSE Closure(T, (S \cup {T.node[i].left : i \in S} \cup {T.node[i].right : i \in S}) \ {NIL}, n - 1)

Reach(T) == Closure(T, {T.root} \ {NIL}, MaxNodes)

Below(T, c) == IF c = NIL THEN {} ELSE Closure(T, {c}, MaxNodes)

Stored(T) == {T.node[n].key : n \in Reach(T)}

Running == status = "running"
Smallest(S) == CHOOSE k \in S : \A j \in S : k <= j

Largest(S) == CHOOSE k \in S : \A j \in S : j <= k

\* The reference result of the tests: std::sort of the keys expected in the tree.
RECURSIVE Repeat(_, _)
Repeat(k, n) == IF n = 0 THEN <<>> ELSE <<k>> \o Repeat(k, n - 1)

RECURSIVE SortedFrom(_)
SortedFrom(k) == IF k > MaxKey THEN <<>> ELSE Repeat(k, expected[k]) \o SortedFrom(k + 1)

ExpectedSorted == SortedFrom(1)

ExpectedKeys == {k \in Keys : Present(k)}

\* The keys of S that are neither its minimum nor its maximum.
Inner(S) == IF S = {} THEN {} ELSE S \ {Smallest(S), Largest(S)}

----
\* C1: after any sequence of insert and remove calls, duplicates allowed,
\* getSortedValues() returns the ascending sort of the keys inserted minus one
\* occurrence for each remove issued while the key was present.
C1_SortedIsExpected == Running => getSortedValues(Tree) = Ok(ExpectedSorted)

\* C2: in every reachable tree, duplicates allowed, every key in the left
\* subtree of a node is strictly less than the node's key and every key in its
\* right subtree is greater than or equal to it.
C2_Ordering ==
    Running => \A n \in Reach(Tree) :
        /\ \A m \in Below(Tree, node[n].left) : node[m].key < node[n].key
        /\ \A m \in Below(Tree, node[n].right) : node[m].key >= node[n].key

\* C3: in every reachable tree the root has no parent and every child c of a
\* node p reachable from the root has c.parent = p.
C3_ParentLinks ==
    Running =>
        /\ root # NIL => node[root].parent = NIL
        /\ \A p \in Reach(Tree) : \A c \in {node[p].left, node[p].right} \ {NIL} :
               node[c].parent = p

\* C4: remove(k) on a tree that does not contain k returns without error and
\* leaves the root and every node unchanged.
C4_RemoveAbsent == Running => \A k \in Keys \ Stored(Tree) : remove(Tree, k) = Tree

\* C5: when a set of distinct keys has been inserted and each of them removed
\* once, the tree is empty: no root, getSortedValues() empty, min() and max()
\* throw "Binary tree is empty".
C5_RoundTrip ==
    (Running /\ distinct /\ ExpectedKeys = {}) =>
        /\ root = NIL
        /\ getSortedValues(Tree) = Ok(<<>>)
        /\ min(Tree) = Throw(EmptyMsg)
        /\ max(Tree) = Throw(EmptyMsg)

C5_Witness ==
    /\ Running /\ distinct /\ ExpectedKeys = {}
    /\ allocated >= 3
    /\ last.op = "remove"

\* C6: min() and max() return the smallest and the largest key stored when the
\* tree is not empty, and throw "Binary tree is empty" exactly when there is
\* no root.
C6_MinMax ==
    Running =>
        IF root = NIL
        THEN min(Tree) = Throw(EmptyMsg) /\ max(Tree) = Throw(EmptyMsg)
        ELSE min(Tree) = Ok(Smallest(Stored(Tree))) /\ max(Tree) = Ok(Largest(Stored(Tree)))

\* C7: in a tree built from pairwise distinct keys, successor(k) of a present
\* key that is not the maximum is the smallest stored key greater than k, and
\* predecessor(k) of a present key that is not the minimum is the largest
\* stored key smaller than k.
C7_Neighbours ==
    (Running /\ distinct) => \A k \in ExpectedKeys :
        /\ k # Largest(ExpectedKeys) =>
               successor(Tree, k) = Ok(Smallest({j \in ExpectedKeys : j > k}))
        /\ k # Smallest(ExpectedKeys) =>
               predecessor(Tree, k) = Ok(Largest({j \in ExpectedKeys : j < k}))

\* after a removal, a tree of three keys or more in which one successor and
\* one predecessor are found by climbing towards the root
C7_Witness ==
    /\ Running /\ distinct /\ last.op = "remove"
    /\ allocated > Cardinality(live) /\ Cardinality(live) >= 3
    /\ \E k \in ExpectedKeys \ {Largest(ExpectedKeys)} :
           /\ node[findValue(Tree, k)].right = NIL
           /\ successor(Tree, k).kind = "value"
    /\ \E k \in ExpectedKeys \ {Smallest(ExpectedKeys)} :
           /\ node[findValue(Tree, k)].left = NIL
           /\ predecessor(Tree, k).kind = "value"

\* C8: predecessor(k) and successor(k) of a key that is not in the tree throw
\* "Value not found".
C8_NotFound ==
    Running => \A k \in Keys \ Stored(Tree) :
        /\ predecessor(Tree, k) = Throw(NotFoundMsg)
        /\ successor(Tree, k) = Throw(NotFoundMsg)

\* C9 as claimed: in every non-empty reachable tree, duplicates allowed,
\* predecessor of the minimum key and successor of the maximum key throw the
\* boundary error.
C9_BoundaryAnyTree ==
    (Running /\ root # NIL) =>
        /\ predecessor(Tree, Smallest(Stored(Tree))) = Throw(BoundaryMsg)
        /\ successor(Tree, Largest(Stored(Tree))) = Throw(BoundaryMsg)

\* C9 amended: in every non-empty tree built from pairwise distinct keys,
\* predecessor of the minimum key and successor of the maximum key throw the
\* boundary error.
C9_BoundaryDistinct ==
    (Running /\ distinct /\ root # NIL) =>
        /\ predecessor(Tree, Smallest(ExpectedKeys)) = Throw(BoundaryMsg)
        /\ successor(Tree, Largest(ExpectedKeys)) = Throw(BoundaryMsg)

\* a tree that has seen a removal, whose maximum lies two levels below the root and
\* whose minimum is not the root, so that both calls climb before they throw
C9_Witness ==
    /\ Running /\ distinct /\ root # NIL /\ allocated > Cardinality(live)
    /\ node[findValue(Tree, Largest(ExpectedKeys))].parent \notin {NIL, root}
    /\ node[findValue(Tree, Smallest(ExpectedKeys))].parent # NIL
    /\ successor(Tree, Largest(ExpectedKeys)) = Throw(BoundaryMsg)
    /\ predecessor(Tree, Smallest(ExpectedKeys)) = Throw(BoundaryMsg)

\* C10 as claimed: in every reachable tree, for every present key k that is
\* neither the minimum nor the maximum, predecessor(successor(k)) = k and
\* successor(predecessor(k)) = k.
C10_DualityAnyTree ==
    Running => \A k \in Inner(Stored(Tree)) :
        /\ successor(Tree, k).kind = "value"
        /\ predecessor(Tree, successor(Tree, k).val) = Ok(k)
        /\ predecessor(Tree, k).kind = "value"
        /\ successor(Tree, predecessor(Tree, k).val) = Ok(k)

\* C10 amended: the same in every tree built from pairwise distinct keys.
C10_DualityDistinct ==
    (Running /\ distinct) =>
        \A k \in Inner(ExpectedKeys) :
            /\ successor(Tree, k).kind = "value"
            /\ predecessor(Tree, successor(Tree, k).val) = Ok(k)
            /\ predecessor(Tree, k).kind = "value"
            /\ successor(Tree, predecessor(Tree, k).val) = Ok(k)

\* after a removal, a key k whose successor is found below it and whose
\* predecessor is found above it, with both round trips returning k
C10_Witness ==
    /\ Running /\ distinct /\ last.op = "remove"
    /\ \E k \in Inner(ExpectedKeys) :
           /\ node[findValue(Tree, k)].right # NIL
           /\ node[findValue(Tree, k)].left = NIL
           /\ predecessor(Tree, successor(Tree, k).val) = Ok(k)
           /\ successor(Tree, predecessor(Tree, k).val) = Ok(k)
----
\* The calls that only read the tree.
QueryOps == {"getSortedValues", "max", "min", "predecessor", "successor"}

----
\* C12: after every insert and every remove on a RedBlackTree no RED node has
\* a RED child, and every path from the root down to a leaf position holds the
\* same number of BLACK nodes.
C12_RedBlackProperties ==
    (RbRunning /\ rbLast.op \in {"insert", "remove"}) =>
        (NoRedRed(RbTree) /\ EqualBlackHeight(RbTree))

\* C13: after every insert on a RedBlackTree that has returned, the root
\* exists and is BLACK.
C13_RootBlack ==
    (RbRunning /\ Len(rbNode) > 0) =>
        (rbRoot # NIL /\ rbNode[rbRoot].color = BLACK)

\* An insert has returned after its fix-up coloured the root RED (Case 1 with
\* the root as grandparent): the root has two BLACK children and a RED
\* grandchild.
C13_Witness ==
    /\ RbRunning
    /\ rbLast.op = "insert"
    /\ rbRoot # NIL
    /\ rbNode[rbRoot].left # NIL
    /\ rbNode[rbRoot].right # NIL
    /\ rbNode[rbNode[rbRoot].left].color = BLACK
    /\ rbNode[rbNode[rbRoot].right].color = BLACK
    /\ rbNode[Len(rbNode)].color = RED
    /\ rbNode[Len(rbNode)].parent \in {rbNode[rbRoot].left, rbNode[rbRoot].right}

\* C14: after n insertions into a RedBlackTree the tree is there to measure
\* and its height h, the number of nodes on the longest path from the root to
\* a leaf, is at most 2*log2(n+1), that is 2^h <= (n+1)^2.
C14_HeightBound ==
    /\ RbRunning
    /\ 2 ^ RbHeight(RbTree, rbRoot, Len(rbNode)) <= (Len(rbNode) + 1) * (Len(rbNode) + 1)

\* C15: a query made on a BinaryTree and on a RedBlackTree that have received
\* the same inserts and removes returns the same value, or throws the same
\* error, on both.
C15_SameAnswers ==
    (last.op \in QueryOps /\ rbLast.op = last.op /\ rbLast.arg = last.arg) =>
        rbLast.res = last.res

\* C16: on an empty RedBlackTree min() and max() throw, and predecessor(k)
\* and successor(k) throw for every k; none of them returns a key.
C16_EmptyThrows ==
    (rbRoot = NIL /\ rbLast.op \in QueryOps \ {"getSortedValues"}) =>
        rbLast.res.kind = "throw"

----
\* C17: insertionSort, mergeSort, heapSort and quickSort each return the
\* elements of their input in ascending order, the result std::sort gives,
\* for every input vector.
C17_SortsSort ==
    callOutput.fn \in {"insertionSort", "mergeSort", "heapSort", "quickSort"} => callOutput.res = Ok(Ascending(callInput))

----
\* C18: bucketSort throws std::out_of_range, and returns nothing, when some
\* element of the input, at whatever position, is below 0 or not below 1;
\* when every element is in [0, 1) it returns the elements in ascending order.
C18_BucketSort ==
    callOutput.fn = "bucketSort" =>
        callOutput.res = IF OutOfRange(callInput) # {} THEN Throw(RangeMsg)
                         ELSE Ok(Ascending(callInput))

\* bucketSort has thrown on a vector whose only key outside the range is the
\* last of three or more.
C18_Witness ==
    /\ callOutput.fn = "bucketSort"
    /\ callOutput.res.kind = "throw"
    /\ Len(callInput) >= 3
    /\ OutOfRange(callInput) = {Len(callInput)}

----
\* C19: for every length n >= 0 and every price table on 1..n,
\* bestRodCutTopDown and bestRodCutBottomUp both return the largest sum of
\* prices over all ways of cutting n into pieces of positive length, and so
\* the same value.
C19_BestRevenue ==
    callOutput.fn \in {"bestRodCutTopDown", "bestRodCutBottomUp"} =>
        callOutput.res = Ok(BestRevenue(callInput, callPrices))

\* The top-down function has returned for a rod of three or more with a
\* negative price in the table, where cutting pays more than the whole rod
\* and more than unit pieces.
C19_Witness ==
    /\ callOutput.fn = "bestRodCutTopDown"
    /\ callInput >= 3
    /\ \E n \in 1..callInput : callPrices[n] < 0
    /\ callOutput.res.val > callPrices[callInput]
    /\ callOutput.res.val > callInput * callPrices[1]

----
\* C20: for every input of two elements or more maxSubarray returns
\* (low, high, sum) where low < high are indices of the input, sum is
\* input[high] - input[low], and no indices i < j have input[j] - input[i]
\* greater than sum.
C20_MaxSubarray ==
    (callOutput.fn = "maxSubarray" /\ Len(callInput) >= 2) =>
        /\ callOutput.res.kind = "value"
        /\ LET t == callOutput.res.val
           IN /\ 0 <= t.low
              /\ t.low < t.high
              /\ t.high < Len(callInput)
              /\ t.sum = At(callInput, t.high) - At(callInput, t.low)
              /\ \A i \in 0..(Len(callInput) - 1) : \A j \in (i + 1)..(Len(callInput) - 1) :
                     At(callInput, j) - At(callInput, i) <= t.sum

----
\* C21: when the node remove(k) targets has two children, the successor node
\* that remove locates is another node, lies in the target's right subtree and
\* has no left child; after the removal it stands where the target stood, has
\* the target's former left subtree as its left child, and the children moved
\* under it name it as their parent. Stated for every reachable tree,
\* duplicate keys included.
C21_TwoChildren ==
    Running => \A k \in Stored(Tree) :
        LET target_node == findValue(Tree, k)
        IN (/\ target_node \in Reach(Tree)
            /\ node[target_node].left # NIL
            /\ node[target_node].right # NIL) =>
           LET s == successor(Tree, node[target_node].key)
               successor_node == IF s.kind = "value" THEN findValue(Tree, s.val) ELSE NIL
               parent == node[target_node].parent
               After == remove(Tree, k)
           IN /\ successor_node \in Below(Tree, node[target_node].right)
              /\ successor_node # target_node
              /\ node[successor_node].left = NIL
              /\ After.out = "ok"
              /\ IF target_node = root THEN After.root = successor_node
                 ELSE IF node[parent].left = target_node
                      THEN After.node[parent].left = successor_node
                      ELSE After.node[parent].right = successor_node
              /\ After.node[successor_node].parent = parent
              /\ After.node[successor_node].left = node[target_node].left
              /\ After.node[node[target_node].left].parent = successor_node
              /\ After.node[successor_node].right # NIL =>
                     After.node[After.node[successor_node].right].parent = successor_node

----
\* C22: when the node remove(k) targets has at most one child, the target is
\* replaced, in the slot of its parent that held it (or at the root), by that
\* child, or by nothing when it has none; the child's parent link becomes the
\* target's former parent; the root (unless it was the target) and every other
\* node's key and links stay as they were.
C22_AtMostOneChild ==
    Running => \A k \in Stored(Tree) :
        LET target_node == findValue(Tree, k)
        IN (/\ target_node \in Reach(Tree)
            /\ (node[target_node].left = NIL \/ node[target_node].right = NIL)) =>
           LET child == IF node[target_node].left = NIL
                        THEN node[target_node].right
                        ELSE node[target_node].left
               parent == node[target_node].parent
               After == remove(Tree, k)
           IN /\ After.out = "ok"
              /\ After.root = IF target_node = root THEN child ELSE root
              /\ After.live = live \ {target_node}
              /\ target_node # root =>
                     /\ parent \in Reach(Tree)
                     /\ target_node \in {node[parent].left, node[parent].right}
              /\ \A n \in live \ {target_node} :
                     After.node[n] =
                         [key |-> node[n].key,
                          left |-> IF n = parent /\ node[n].left = target_node
                                   THEN child ELSE node[n].left,
                          right |-> IF n = parent /\ node[n].right = target_node
                                    THEN child ELSE node[n].right,
                          parent |-> IF n = child THEN parent ELSE node[n].parent]

----
\* C23: insert(k) attaches exactly one new leaf holding k and rebalances
\* nothing: its search for the place ends, the leaf becomes the root of an
\* empty tree, and otherwise the left child of the last node on the search
\* path for k when k is strictly less than that node's key, its right child
\* when not (ties go right); the slot it takes was empty, and every node that
\* was there before keeps its key and its links but for that one slot.
C23_InsertLeaf ==
    Running => \A k \in Keys :
        LET parent_node == insertLoop(Tree, NIL, root, k, LoopFuel)
        IN /\ parent_node # HANG
           /\ allocated < MaxNodes =>
               LET new_node == allocated + 1
                   After == insert(Tree, k, new_node)
               IN /\ After.out = "ok"
                  /\ After.live = live \cup {new_node}
                  /\ After.node[new_node] = Node(k, NIL, parent_node, NIL)
                  /\ Reach(After) = Reach(Tree) \cup {new_node}
                  /\ IF root = NIL
                     THEN /\ parent_node = NIL
                          /\ After.root = new_node
                     ELSE /\ parent_node \in Reach(Tree)
                          /\ After.root = root
                          /\ IF k < node[parent_node].key
                             THEN /\ node[parent_node].left = NIL
                                  /\ After.node[parent_node] =
                                         [node[parent_node] EXCEPT !.left = new_node]
                             ELSE /\ node[parent_node].right = NIL
                                  /\ After.node[parent_node] =
                                         [node[parent_node] EXCEPT !.right = new_node]
                  /\ \A n \in live \ {parent_node} : After.node[n] = node[n]

----
\* C24: on every tree reachable by insert and remove, findValue(k) returns a
\* node whose key is k exactly when some node reachable from the root holds k,
\* and returns null when none does; when several nodes hold k it returns the
\* one nearest the root, the others lying below it.
C24_FindValue ==
    Running => \A k \in Keys :
        LET found == findValue(Tree, k)
        IN /\ found # HANG
           /\ IF k \in Stored(Tree)
              THEN /\ found \in Reach(Tree)
                   /\ node[found].key = k
                   /\ \A n \in Reach(Tree) : node[n].key = k => n \in Below(Tree, found)
              ELSE found = NIL

----
\* C25: an iteration of the insertFixup loop that finds the uncle RED (Case 1)
\* only makes the parent and the uncle BLACK and the grandparent RED and moves
\* the cursor to the grandparent, in the left branch and in the mirrored one:
\* no rotation, no other recolouring, and the loop condition is tested next.
C25_CaseOne ==
    [][LET p == rbNode[rbCursor].parent
           g == rbNode[p].parent
           uncle == IF p = rbNode[g].left THEN rbNode[g].right ELSE rbNode[g].left
       IN (/\ rbStatus = "running"
           /\ rbCursor # NIL
           /\ fixupGoesOn(RbTree, rbCursor)
           /\ g # NIL
           /\ uncle # NIL
           /\ rbNode[uncle].color = RED)
          => /\ rbStatus' = "running"
             /\ rbCursor' = g
             /\ rbRoot' = rbRoot
             /\ rbNode' = [rbNode EXCEPT ![p].color = BLACK,
                                         ![uncle].color = BLACK,
                                         ![g].color = RED]]_vars

----
\* C26: whenever the body of the insertFixup loop runs the grandparent
\* exists, and an absent uncle counts as BLACK: the iteration goes on with
\* Case 2 or Case 3 (the cursor stays or moves to the parent) and reads no
\* field of an absent node.
C26_AbsentUncle ==
    [][LET p == rbNode[rbCursor].parent
           g == rbNode[p].parent
           uncle == IF p = rbNode[g].left THEN rbNode[g].right ELSE rbNode[g].left
       IN (/\ rbStatus = "running"
           /\ rbCursor # NIL
           /\ fixupGoesOn(RbTree, rbCursor))
          => /\ g # NIL
             /\ uncle = NIL =>
                    /\ rbStatus' = "running"
                    /\ rbCursor' \in {rbCursor, p}]_vars

----
\* C27: every RedBlackTree::insert eventually completes: once insert has
\* entered insertFixup, the loop comes to its end and the call returns.
C27_InsertCompletes == (rbCursor # NIL) ~> (rbCursor = NIL /\ rbStatus = "running")

----
\* C28: leftRotate(x) on a node x with a right child y puts y where x was (at
\* the root, or in the slot of x's former parent that held x, with y.parent
\* that parent), makes x the left child of y with x.parent = y, makes y's
\* former left subtree the right subtree of x with its parent link x, leaves
\* x's left subtree and y's right subtree alone, and keeps the in-order
\* sequence of the keys.
C28_LeftRotate ==
    RbRunning => \A x \in RbReach(RbTree) :
        rbNode[x].right # NIL =>
            LET y == rbNode[x].right
                parent == rbNode[x].parent
                After == leftRotate(RbTree, x)
            IN /\ After.out = "ok"
               /\ IF x = rbRoot THEN After.root = y
                  ELSE /\ After.root = rbRoot
                       /\ IF rbNode[parent].left = x
                          THEN After.node[parent].left = y
                          ELSE After.node[parent].right = y
               /\ After.node[y].parent = parent
               /\ After.node[y].left = x
               /\ After.node[x].parent = y
               /\ After.node[x].right = rbNode[y].left
               /\ rbNode[y].left # NIL => After.node[rbNode[y].left].parent = x
               /\ After.node[x].left = rbNode[x].left
               /\ After.node[y].right = rbNode[y].right
               /\ RbInorder(After, After.root, Len(rbNode))
                      = RbInorder(RbTree, rbRoot, Len(rbNode))

----
\* C29: rightRotate mirrors leftRotate: rightRotate(x) on a node x with a left
\* child y puts y where x was, makes x the right child of y and y's former
\* right subtree the left subtree of x, parent links and the former parent's
\* slot (or the root) included; so the two rotations undo each other:
\* leftRotate(y) after rightRotate(x) and rightRotate(y) after leftRotate(x)
\* give the original tree back.
C29_RightRotate ==
    RbRunning => \A x \in RbReach(RbTree) :
        /\ rbNode[x].left # NIL =>
               LET y == rbNode[x].left
                   parent == rbNode[x].parent
                   After == rightRotate(RbTree, x)
               IN /\ After.out = "ok"
                  /\ IF x = rbRoot THEN After.root = y
                     ELSE /\ After.root = rbRoot
                          /\ IF rbNode[parent].left = x
                             THEN After.node[parent].left = y
                             ELSE After.node[parent].right = y
                  /\ After.node[y].parent = parent
                  /\ After.node[y].right = x
                  /\ After.node[x].parent = y
                  /\ After.node[x].left = rbNode[y].right
                  /\ rbNode[y].right # NIL => After.node[rbNode[y].right].parent = x
                  /\ After.out = "ok" => leftRotate(After, y) = RbTree
        /\ rbNode[x].right # NIL =>
               LET After == leftRotate(RbTree, x)
               IN After.out = "ok" /\ rightRotate(After, rbNode[x].right) = RbTree

----
\* C30: in every call of detail::merge that mergeSort makes, the indices i
\* and j stay at or before the sentinel that ends left and right, whatever
\* the input, the sentinel value itself (the largest double) included: no
\* mergeSort call reads past the end of a working array.
C30_MergeInBounds ==
    callOutput.fn = "mergeSort" =>
        /\ mergeSort(callInput).out = "ok"
        /\ callOutput.res \notin OutOfBoundsOutcomes

====
